---- MODULE Spec2Model ----
(***************************************************************************)
(* A model of the async TCP port scanner of src/src/main.rs: main (target  *)
(* and port validation, the permit-bounded dispatch loop, the probe tasks, *)
(* the buffer_unordered collection loop, the ScanSummary), grab_banner,    *)
(* detect_service and parse_ports.                                         *)
(*                                                                         *)
(* Text (Rust &str / String / byte buffers) is a sequence of one-character *)
(* strings, so that split, trim, contains and parse are computed.          *)
(* Option<T> is a sequence of length at most one: None is <<>>, Some(x) is *)
(* <<x>>.  Result<T, E> is a record [ok |-> BOOLEAN, ...].                 *)
(***************************************************************************)
EXTENDS Integers, Sequences, FiniteSets, TLC

None == <<>>
Some(x) == <<x>>

(***************************************************************************)
(* Bounds of the model.                                                    *)
(***************************************************************************)
\* the largest concurrency limit (-c) the model draws
MaxConcurrency == 2
\* the last instant of the logical clock (Instant::now) the model reaches
MaxTime == 1

(***************************************************************************)
(* Text helpers: str::split, str::trim, str::contains, str::starts_with,   *)
(* str::parse::<u16>.                                                      *)
(***************************************************************************)
Whitespace == {" ", "\n", "\r", "\t"}

Digits == {"0", "1", "2", "3", "4", "5", "6", "7", "8", "9"}

DigitVal(c) ==
  CASE c = "0" -> 0 [] c = "1" -> 1 [] c = "2" -> 2 [] c = "3" -> 3
    [] c = "4" -> 4 [] c = "5" -> 5 [] c = "6" -> 6 [] c = "7" -> 7
    [] c = "8" -> 8 [] c = "9" -> 9

U16Max == 65535

\* s.split(sep): the pieces between the separators, empty pieces included
RECURSIVE SplitFrom(_, _, _, _)
SplitFrom(s, sep, i, cur) ==
  IF i > Len(s) THEN <<cur>>
  ELSE IF s[i] = sep THEN <<cur>> \o SplitFrom(s, sep, i + 1, <<>>)
  ELSE SplitFrom(s, sep, i + 1, Append(cur, s[i]))

Split(s, sep) == SplitFrom(s, sep, 1, <<>>)

RECURSIVE TrimStart(_)
TrimStart(s) ==
  IF s # <<>> /\ Head(s) \in Whitespace THEN TrimStart(Tail(s)) ELSE s

RECURSIVE TrimEnd(_)
TrimEnd(s) ==
  IF s # <<>> /\ s[Len(s)] \in Whitespace
  THEN TrimEnd(SubSeq(s, 1, Len(s) - 1)) ELSE s

Trim(s) == TrimEnd(TrimStart(s))

StartsWith(s, pat) ==
  Len(pat) <= Len(s) /\ SubSeq(s, 1, Len(pat)) = pat

Contains(s, pat) ==
  \E i \in 1..(Len(s) - Len(pat) + 1) : SubSeq(s, i, i + Len(pat) - 1) = pat

ContainsChar(s, c) == \E i \in 1..Len(s) : s[i] = c

\* the digits of a u16, most significant first; fails on a non-digit and on
\* a value above u16::MAX
RECURSIVE ParseDigits(_, _)
ParseDigits(s, acc) ==
  IF s = <<>> THEN [ok |-> TRUE, val |-> acc]
  ELSE IF Head(s) \notin Digits THEN [ok |-> FALSE, val |-> 0]
  ELSE LET n == acc * 10 + DigitVal(Head(s))
       IN IF n > U16Max THEN [ok |-> FALSE, val |-> 0]
          ELSE ParseDigits(Tail(s), n)

\* str::parse::<u16>: an optional leading "+", then at least one digit
ParseU16(s) ==
  IF s = <<>> THEN [ok |-> FALSE, val |-> 0]
  ELSE IF Head(s) = "+"
       THEN IF Len(s) = 1 THEN [ok |-> FALSE, val |-> 0]
            ELSE ParseDigits(Tail(s), 0)
       ELSE ParseDigits(s, 0)

(***************************************************************************)
(* parse_ports                                                             *)
(***************************************************************************)
\* for i in start..=end { v.push(i) }
RECURSIVE PushRange(_, _, _)
PushRange(v, start, end) ==
  IF start > end THEN v ELSE PushRange(Append(v, start), start + 1, end)

\* v.sort(): ascending, duplicates kept
RECURSIVE InsertSorted(_, _)
InsertSorted(v, x) ==
  IF v = <<>> THEN <<x>>
  ELSE IF x < Head(v) THEN <<x>> \o v
  ELSE <<Head(v)>> \o InsertSorted(Tail(v), x)

RECURSIVE SortPorts(_)
SortPorts(v) ==
  IF v = <<>> THEN <<>>
  ELSE InsertSorted(SortPorts(SubSeq(v, 1, Len(v) - 1)), v[Len(v)])

\* mutant: dedup is left out
Dedup_Missing(v) == v

\* v.dedup(): consecutive equal elements collapse into the first
RECURSIVE Dedup(_)
Dedup(v) ==
  IF Len(v) <= 1 THEN v
  ELSE IF v[1] = v[2] THEN Dedup(Tail(v))
  ELSE <<v[1]>> \o Dedup(Tail(v))

\* v.retain(|&p| p != 0)
RetainNonZero(v) == SelectSeq(v, LAMBDA p : p # 0)

\* one token of the specification, appended to v; the first error returns
ParsePart(v, rawPart) ==
  LET part == Trim(rawPart)
  IN IF part = <<>> THEN [ok |-> TRUE, v |-> v, err |-> ""]
     ELSE IF ContainsChar(part, "-")
     THEN LET nums == Split(part, "-")
          IN IF Len(nums) # 2
             THEN [ok |-> FALSE, v |-> <<>>, err |-> "Invalid range format"]
             ELSE LET start == ParseU16(nums[1])
                      end == ParseU16(nums[2])
                  IN IF ~start.ok \/ ~end.ok
                     THEN [ok |-> FALSE, v |-> <<>>, err |-> "ParseIntError"]
                     ELSE IF start.val > end.val
                     THEN [ok |-> FALSE, v |-> <<>>, err |-> "Start > end"]
                     ELSE [ok |-> TRUE, v |-> PushRange(v, start.val, end.val),
                           err |-> ""]
     ELSE LET n == ParseU16(part)
          IN IF ~n.ok
             THEN [ok |-> FALSE, v |-> <<>>, err |-> "ParseIntError"]
             ELSE [ok |-> TRUE, v |-> Append(v, n.val), err |-> ""]

\* mutant: a token that does not parse is skipped, the others are kept
RECURSIVE ParseParts_SkipBad(_, _)
ParseParts_SkipBad(v, parts) ==
  IF parts = <<>> THEN [ok |-> TRUE, v |-> v, err |-> ""]
  ELSE LET r == ParsePart(v, Head(parts))
       IN IF ~r.ok THEN ParseParts_SkipBad(v, Tail(parts))
          ELSE ParseParts_SkipBad(r.v, Tail(parts))

\* for part in s.split(',') { ... }
RECURSIVE ParseParts(_, _)
ParseParts(v, parts) ==
  IF parts = <<>> THEN [ok |-> TRUE, v |-> v, err |-> ""]
  ELSE LET r == ParsePart(v, Head(parts))
       IN IF ~r.ok THEN r ELSE ParseParts(r.v, Tail(parts))

parse_ports(s) ==
  LET r == ParseParts(<<>>, Split(s, ","))
  IN IF ~r.ok THEN r
     ELSE LET v == RetainNonZero(Dedup(SortPorts(r.v)))
          IN IF v = <<>>
             THEN [ok |-> FALSE, v |-> <<>>, err |-> "No valid ports"]
             ELSE [ok |-> TRUE, v |-> v, err |-> ""]

(***************************************************************************)
(* detect_service                                                          *)
(***************************************************************************)
Str_SSH == <<"S", "S", "H", "-">>
Str_HTTP == <<"H", "T", "T", "P", "/">>
Str_Server == <<"S", "e", "r", "v", "e", "r", ":">>
Str_220 == <<"2", "2", "0", " ">>

\* the HashMap m of well-known ports
WellKnownPorts == {22, 80, 443, 21, 25, 3306, 5432, 3389, 5900}

ServiceTable(port) ==
  CASE port = 22 -> "SSH" [] port = 80 -> "HTTP" [] port = 443 -> "HTTPS"
    [] port = 21 -> "FTP" [] port = 25 -> "SMTP" [] port = 3306 -> "MySQL"
    [] port = 5432 -> "PostgreSQL" [] port = 3389 -> "RDP"
    [] port = 5900 -> "VNC"

\* m.get(&port).map(|s| s.to_string())
TableLookup(port) ==
  IF port \in WellKnownPorts THEN Some(ServiceTable(port)) ELSE None

\* mutant: the table is looked up first, the banner only for other ports
detect_service_TableFirst(port, banner) ==
  IF port \in WellKnownPorts THEN TableLookup(port)
  ELSE IF banner # None /\ Contains(banner[1], Str_SSH) THEN Some("SSH")
  ELSE IF banner # None
          /\ (Contains(banner[1], Str_HTTP) \/ Contains(banner[1], Str_Server))
  THEN Some("HTTP")
  ELSE IF banner # None /\ StartsWith(banner[1], Str_220) THEN Some("SMTP/FTP")
  ELSE None

detect_service(port, banner) ==
  IF banner # None /\ Contains(banner[1], Str_SSH) THEN Some("SSH")
  ELSE IF banner # None
          /\ (Contains(banner[1], Str_HTTP) \/ Contains(banner[1], Str_Server))
  THEN Some("HTTP")
  ELSE IF banner # None /\ StartsWith(banner[1], Str_220) THEN Some("SMTP/FTP")
  ELSE TableLookup(port)

(***************************************************************************)
(* grab_banner                                                             *)
(***************************************************************************)
\* a byte that is no valid UTF-8, and the character from_utf8_lossy puts for it
InvalidByte == "<FF>"
ReplacementChar == "<U+FFFD>"

\* String::from_utf8_lossy(&buffer[..n])
FromUtf8Lossy(bytes) ==
  [i \in 1..Len(bytes) |->
     IF bytes[i] = InvalidByte THEN ReplacementChar ELSE bytes[i]]

\* mutant: the guard `n > 0` is missing, an empty read is a banner
grab_banner_NoLengthGuard(read) ==
  IF read.kind = "data"
  THEN Some(TrimEnd(FromUtf8Lossy(read.bytes)))
  ELSE None

\* what timeout(dur, readable + read) resolves to: Ok(Ok(n)) with the n
\* bytes read ("data"; n = 0 is the end of the stream), Ok(Err(e)) ("io_error")
\* or Err(Elapsed) ("elapsed").  The result is Some(banner) for Ok(String)
\* and None for Err(ScanError::Io), i.e. grab_banner(..).await.ok().
grab_banner(read) ==
  IF read.kind = "data" /\ Len(read.bytes) > 0
  THEN Some(TrimEnd(FromUtf8Lossy(read.bytes)))
  ELSE None

(***************************************************************************)
(* The inputs of a run: the command line (Args).                           *)
(***************************************************************************)
Str_9_22 == <<"9", ",", "2", "2">>
Str_21to23 == <<"2", "1", "-", "2", "3">>
Str_2to1 == <<"2", "-", "1">>
Str_a == <<"a">>
Str_0 == <<"0">>

\* the port specifications (-p) the model draws: two that parse, three that
\* parse_ports rejects (inverted range, not a number, only port 0)
PortSpecs == {Str_9_22, Str_21to23, Str_2to1, Str_a, Str_0}

\* the targets (-t) the model draws, and IpAddr::from_str on them
Targets == {"127.0.0.1", "localhost"}

IpAddrFromStr(t) ==
  IF t = "127.0.0.1" THEN [ok |-> TRUE] ELSE [ok |-> FALSE]

\* what timeout(conn_timeout, TcpStream::connect(addr)) resolves to:
\* Ok(Ok(stream)), Ok(Err(e)) with e.kind() == ConnectionRefused, Ok(Err(e))
\* with another kind, Err(Elapsed)
ConnectOutcomes == {"connected", "refused", "io_error", "elapsed"}

Bytes_SSH == <<"S", "S", "H", "-", "2", "\r", "\n">>
Bytes_Blank == <<"\n">>

\* what the read of grab_banner resolves to
ReadOutcomes ==
  {[kind |-> "data", bytes |-> Bytes_SSH],
   [kind |-> "data", bytes |-> Bytes_Blank],
   [kind |-> "data", bytes |-> <<>>],
   [kind |-> "io_error", bytes |-> <<>>],
   [kind |-> "elapsed", bytes |-> <<>>]}

NoRead == [kind |-> "none", bytes |-> <<>>]

(***************************************************************************)
(* The state of a run.                                                     *)
(***************************************************************************)
VARIABLES
  target, portSpec, concurrency, quiet,  \* Args
  pc,           \* where main is
  error,        \* the error main returned, if any
  now,          \* the clock (Instant::now), in logical instants
  ports,        \* the parsed port list
  start_time,   \* Some(instant) once taken
  permits,      \* Some(available permits of the semaphore) once created
  pb,           \* Some(position of the progress bar), None when quiet
  tasks,        \* the join handles pushed, as the ports they probe
  tstate,       \* per port: "none", "spawned", "connecting", "banner",
                \* "done" (the task returned), "failed" (JoinError)
  connect_res,  \* per port: what the connection attempt resolved to
  read_res,     \* per port: what the banner read resolved to
  duration,     \* per port: the task's local `duration`
  output,       \* per port: Some(PortResult) once the task returned
  attempts,     \* per port: connection attempts started
  completed,    \* the ports whose task ended, in the order they ended
  finished_at,  \* per port: Some(instant the task ended)
  ended_early,  \* the ports whose task had ended when the collection began
  streamPos,    \* handles the collector has taken from stream::iter(tasks)
  in_progress,  \* the handles in the collector's FuturesUnordered
  ready_queue,  \* its ready-to-run queue: handles to poll, in order
  results,      \* the Vec<PortResult> of main
  summary       \* Some(ScanSummary) once built

vars ==
  <<target, portSpec, concurrency, quiet, pc, error, now, ports, start_time,
    permits, pb, tasks, tstate, connect_res, read_res, duration, output,
    attempts, completed, finished_at, ended_early, streamPos, in_progress,
    ready_queue, results, summary>>

argVars == <<target, portSpec, concurrency, quiet>>
taskVars ==
  <<tstate, connect_res, read_res, duration, output, attempts, completed,
    finished_at>>
collectorVars == <<ended_early, streamPos, in_progress, ready_queue>>

PortSet == {ports[i] : i \in 1..Len(ports)}

Init ==
  /\ target \in Targets
  /\ portSpec \in PortSpecs
  /\ concurrency \in 0..MaxConcurrency
  /\ quiet \in BOOLEAN
  /\ pc = "start"
  /\ error = None
  /\ now = 0
  /\ ports = <<>>
  /\ start_time = None
  /\ permits = None
  /\ pb = None
  /\ tasks = <<>>
  /\ tstate = <<>>
  /\ connect_res = <<>>
  /\ read_res = <<>>
  /\ duration = <<>>
  /\ output = <<>>
  /\ attempts = <<>>
  /\ completed = <<>>
  /\ finished_at = <<>>
  /\ ended_early = {}
  /\ streamPos = 0
  /\ in_progress = {}
  /\ ready_queue = <<>>
  /\ results = <<>>
  /\ summary = None

(***************************************************************************)
(* main, up to the dispatch loop.                                          *)
(***************************************************************************)
\* let ip_addr = IpAddr::from_str(&args.target).map_err(..)?
ValidateTarget ==
  /\ pc = "start"
  /\ IF IpAddrFromStr(target).ok
     THEN pc' = "parse" /\ error' = error
     ELSE pc' = "failed" /\ error' = Some("Invalid target address")
  /\ UNCHANGED <<argVars, now, ports, start_time, permits, pb, tasks,
                 taskVars, collectorVars, results, summary>>

\* mutant: the error of parse_ports is not propagated
ParsePorts_IgnoreError ==
  /\ pc = "parse"
  /\ pc' = "setup"
  /\ ports' = parse_ports(portSpec).v
  /\ UNCHANGED <<argVars, error, now, start_time, permits, pb, tasks,
                 taskVars, collectorVars, results, summary>>

\* let ports = parse_ports(&args.ports)?
ParsePorts ==
  /\ pc = "parse"
  /\ LET r == parse_ports(portSpec)
     IN IF r.ok
        THEN pc' = "setup" /\ ports' = r.v /\ error' = error
        ELSE pc' = "failed" /\ ports' = ports /\ error' = Some(r.err)
  /\ UNCHANGED <<argVars, now, start_time, permits, pb, tasks, taskVars,
                 collectorVars, results, summary>>

\* mutant: a limit of 0 is raised to 1
Setup_ClampConcurrency ==
  /\ pc = "setup"
  /\ start_time' = Some(now)
  /\ permits' = Some(IF concurrency = 0 THEN 1 ELSE concurrency)
  /\ pb' = IF ~quiet THEN Some(0) ELSE None
  /\ tasks' = <<>>
  /\ tstate' = [p \in PortSet |-> "none"]
  /\ connect_res' = [p \in PortSet |-> "none"]
  /\ read_res' = [p \in PortSet |-> NoRead]
  /\ duration' = [p \in PortSet |-> None]
  /\ output' = [p \in PortSet |-> None]
  /\ attempts' = [p \in PortSet |-> 0]
  /\ finished_at' = [p \in PortSet |-> None]
  /\ pc' = "dispatch"
  /\ UNCHANGED <<argVars, error, now, ports, completed, collectorVars,
                 results, summary>>

\* start_time, Semaphore::new(args.concurrency), the progress bar, tasks
Setup ==
  /\ pc = "setup"
  /\ start_time' = Some(now)
  /\ permits' = Some(concurrency)
  /\ pb' = IF ~quiet THEN Some(0) ELSE None
  /\ tasks' = <<>>
  /\ tstate' = [p \in PortSet |-> "none"]
  /\ connect_res' = [p \in PortSet |-> "none"]
  /\ read_res' = [p \in PortSet |-> NoRead]
  /\ duration' = [p \in PortSet |-> None]
  /\ output' = [p \in PortSet |-> None]
  /\ attempts' = [p \in PortSet |-> 0]
  /\ finished_at' = [p \in PortSet |-> None]
  /\ pc' = "dispatch"
  /\ UNCHANGED <<argVars, error, now, ports, completed, collectorVars,
                 results, summary>>

(***************************************************************************)
(* The dispatch loop.                                                      *)
(***************************************************************************)
\* mutant: the dispatcher does not wait for a permit
AcquireReady_NoGate(available) == TRUE

\* semaphore.acquire_owned().await resolves when a permit is available
AcquireReady(available) == available > 0

\* mutant: the dispatcher walks the port list from its end
Dispatch_Reverse ==
  /\ pc = "dispatch"
  /\ Len(tasks) < Len(ports)
  /\ AcquireReady(permits[1])
  /\ LET port == ports[Len(ports) - Len(tasks)]
     IN /\ permits' = Some(permits[1] - 1)
        /\ tstate' = [tstate EXCEPT ![port] = "spawned"]
        /\ tasks' = Append(tasks, port)
  /\ UNCHANGED <<argVars, pc, error, now, ports, start_time, pb, connect_res,
                 read_res, duration, output, attempts, completed, finished_at,
                 collectorVars, results, summary>>

\* one iteration: acquire a permit, spawn the probe task, push its handle
Dispatch ==
  /\ pc = "dispatch"
  /\ Len(tasks) < Len(ports)
  /\ AcquireReady(permits[1])
  /\ LET port == ports[Len(tasks) + 1]
     IN /\ permits' = Some(permits[1] - 1)
        /\ tstate' = [tstate EXCEPT ![port] = "spawned"]
        /\ tasks' = Append(tasks, port)
  /\ UNCHANGED <<argVars, pc, error, now, ports, start_time, pb, connect_res,
                 read_res, duration, output, attempts, completed, finished_at,
                 collectorVars, results, summary>>

\* a join handle is ready once its task has ended
HandleReady(p) == tstate[p] \in {"done", "failed"}

\* mutant: collection starts as soon as one probe has been dispatched
BeginCollect_Early ==
  /\ pc = "dispatch"
  /\ Len(tasks) >= 1
  /\ results' = <<>>
  /\ ended_early' = {p \in PortSet : HandleReady(p)}
  /\ streamPos' = 0
  /\ in_progress' = {}
  /\ ready_queue' = <<>>
  /\ pc' = "collect"
  /\ UNCHANGED <<argVars, error, now, ports, start_time, permits, pb, tasks,
                 taskVars, summary>>

\* the loop is over: results = vec![], stream::iter(tasks).buffer_unordered
BeginCollect ==
  /\ pc = "dispatch"
  /\ Len(tasks) = Len(ports)
  /\ results' = <<>>
  /\ ended_early' = {p \in PortSet : HandleReady(p)}
  /\ streamPos' = 0
  /\ in_progress' = {}
  /\ ready_queue' = <<>>
  /\ pc' = "collect"
  /\ UNCHANGED <<argVars, error, now, ports, start_time, permits, pb, tasks,
                 taskVars, summary>>

(***************************************************************************)
(* A probe task (the async block given to tokio::spawn).                   *)
(***************************************************************************)
\* mutant: every connection error counts as a refusal
StatusOf_AnyErrorClosed(outcome) ==
  IF outcome = "connected" THEN "Open"
  ELSE IF outcome \in {"refused", "io_error"} THEN "Closed"
  ELSE "Filtered"

\* the arm of `match connect_res` an outcome takes
StatusOf(outcome) ==
  IF outcome = "connected" THEN "Open"
  ELSE IF outcome = "refused" THEN "Closed"
  ELSE "Filtered"

\* mutant: the elapsed time is taken when the result is built
OpenResult_DurationAtEnd(port, read, dur) ==
  LET banner == grab_banner(read)
  IN [port |-> port, status |-> StatusOf("connected"), banner |-> banner,
      service |-> detect_service(port, banner),
      duration_ms |-> now - start_time[1]]

\* the PortResult of the Open arm
OpenResult(port, read, dur) ==
  LET banner == grab_banner(read)
  IN [port |-> port, status |-> StatusOf("connected"), banner |-> banner,
      service |-> detect_service(port, banner), duration_ms |-> dur]

\* the PortResult of the Closed and Filtered arms
ClosedOrFilteredResult(port, outcome, dur) ==
  [port |-> port, status |-> StatusOf(outcome), banner |-> None,
   service |-> None, duration_ms |-> dur]

\* mutant: the permit is forgotten, never given back
ReleasePermit_Leak(available) == available

\* dropping _permit gives the permit back
ReleasePermit(available) == available + 1

\* mutant: the waker queues the handle although it is queued already
Wake_Requeue(p) ==
  IF p \in in_progress THEN Append(ready_queue, p) ELSE ready_queue

\* the waker of a join handle the collector polled before the task ended
\* puts the handle back on the collector's ready-to-run queue
Wake(p) ==
  IF p \in in_progress /\ ~ContainsChar(ready_queue, p)
  THEN Append(ready_queue, p)
  ELSE ready_queue

\* mutant: a task that fails keeps its permit
TaskEnds_LeakOnFailure(p, out) ==
  /\ tstate' = [tstate EXCEPT ![p] = IF out = None THEN "failed" ELSE "done"]
  /\ output' = [output EXCEPT ![p] = out]
  /\ permits' = IF out = None THEN permits ELSE Some(ReleasePermit(permits[1]))
  /\ completed' = Append(completed, p)
  /\ finished_at' = [finished_at EXCEPT ![p] = Some(now)]
  /\ ready_queue' = Wake(p)

\* the task of port p ends: its future and with it _permit are dropped, its
\* join handle becomes ready with `out` (None is a JoinError)
TaskEnds(p, out) ==
  /\ tstate' = [tstate EXCEPT ![p] = IF out = None THEN "failed" ELSE "done"]
  /\ output' = [output EXCEPT ![p] = out]
  /\ permits' = Some(ReleasePermit(permits[1]))
  /\ completed' = Append(completed, p)
  /\ finished_at' = [finished_at EXCEPT ![p] = Some(now)]
  /\ ready_queue' = Wake(p)

\* the task is first polled: timeout(conn_timeout, TcpStream::connect(addr))
StartConnect(p) ==
  /\ tstate[p] = "spawned"
  /\ tstate' = [tstate EXCEPT ![p] = "connecting"]
  /\ attempts' = [attempts EXCEPT ![p] = attempts[p] + 1]
  /\ UNCHANGED <<argVars, pc, error, now, ports, start_time, permits, pb,
                 tasks, connect_res, read_res, duration, output, completed,
                 finished_at, collectorVars, results, summary>>

\* the connection attempt resolves with a stream: duration is taken, the
\* banner read starts
ConnectOk(p) ==
  /\ tstate[p] = "connecting"
  /\ connect_res' = [connect_res EXCEPT ![p] = "connected"]
  /\ duration' = [duration EXCEPT ![p] = Some(now - start_time[1])]
  /\ tstate' = [tstate EXCEPT ![p] = "banner"]
  /\ UNCHANGED <<argVars, pc, error, now, ports, start_time, permits, pb,
                 tasks, read_res, output, attempts, completed, finished_at,
                 collectorVars, results, summary>>

\* mutant: a connection attempt that hits the deadline is tried once more
ConnectFails_Retry(p, outcome) ==
  /\ tstate[p] = "connecting"
  /\ outcome # "connected"
  /\ connect_res' = [connect_res EXCEPT ![p] = outcome]
  /\ duration' = [duration EXCEPT ![p] = Some(now - start_time[1])]
  /\ IF outcome = "elapsed" /\ attempts[p] < 2
     THEN /\ tstate' = [tstate EXCEPT ![p] = "spawned"]
          /\ UNCHANGED <<output, permits, completed, finished_at, ready_queue>>
     ELSE TaskEnds(p, Some(ClosedOrFilteredResult(p, outcome,
                                                  now - start_time[1])))
  /\ UNCHANGED <<argVars, pc, error, now, ports, start_time, pb, tasks,
                 read_res, attempts, ended_early, streamPos, in_progress,
                 results, summary>>

\* the connection attempt resolves without a stream: duration is taken and
\* the task returns its PortResult
ConnectFails(p, outcome) ==
  /\ tstate[p] = "connecting"
  /\ outcome # "connected"
  /\ connect_res' = [connect_res EXCEPT ![p] = outcome]
  /\ duration' = [duration EXCEPT ![p] = Some(now - start_time[1])]
  /\ TaskEnds(p, Some(ClosedOrFilteredResult(p, outcome, now - start_time[1])))
  /\ UNCHANGED <<argVars, pc, error, now, ports, start_time, pb, tasks,
                 read_res, attempts, ended_early, streamPos, in_progress, results,
                 summary>>

\* grab_banner resolves; detect_service; the task returns its PortResult
BannerDone(p, read) ==
  /\ tstate[p] = "banner"
  /\ read_res' = [read_res EXCEPT ![p] = read]
  /\ TaskEnds(p, Some(OpenResult(p, read, duration[p][1])))
  /\ UNCHANGED <<argVars, pc, error, now, ports, start_time, pb, tasks,
                 connect_res, duration, attempts, ended_early, streamPos,
                 in_progress, results, summary>>

\* the task does not run to completion (it panics): its join handle yields
\* a JoinError; unwinding drops _permit
TaskFails(p) ==
  /\ tstate[p] \in {"spawned", "connecting", "banner"}
  /\ TaskEnds(p, None)
  /\ UNCHANGED <<argVars, pc, error, now, ports, start_time, pb, tasks,
                 connect_res, read_res, duration, attempts, ended_early,
                 streamPos, in_progress, results, summary>>

(***************************************************************************)
(* The collection loop over stream::iter(tasks).buffer_unordered(2 * c).   *)
(***************************************************************************)
\* mutant: a handle pushed goes to the front of the ready-to-run queue
RECURSIVE Fill_Lifo(_, _, _, _)
Fill_Lifo(pos, inprog, queue, max) ==
  IF Cardinality(inprog) < max /\ pos < Len(tasks)
  THEN Fill_Lifo(pos + 1, inprog \cup {tasks[pos + 1]},
                 <<tasks[pos + 1]>> \o queue, max)
  ELSE [pos |-> pos, inprog |-> inprog, queue |-> queue]

\* BufferUnordered::poll_next first moves handles from the iterator into
\* its FuturesUnordered while it holds fewer than max of them; a handle
\* pushed is put on the ready-to-run queue
RECURSIVE Fill(_, _, _, _)
Fill(pos, inprog, queue, max) ==
  IF Cardinality(inprog) < max /\ pos < Len(tasks)
  THEN Fill(pos + 1, inprog \cup {tasks[pos + 1]},
            Append(queue, tasks[pos + 1]), max)
  ELSE [pos |-> pos, inprog |-> inprog, queue |-> queue]

BufferMax == concurrency * 2

\* pb.inc(1)
PbInc(bar) == IF bar # None THEN Some(bar[1] + 1) ELSE None

\* mutant: only what is printed in quiet mode (the open ports) is pushed
PushResult_OnlyOpen(rs, out) ==
  IF out # None /\ out[1].status = "Open" THEN Append(rs, out[1]) ELSE rs

\* mutant: a failed task is given a Filtered result
PushResult_Fabricate(rs, out) ==
  IF out # None THEN Append(rs, out[1])
  ELSE Append(rs, [port |-> 0, status |-> "Filtered", banner |-> None,
                   service |-> None, duration_ms |-> 0])

\* the body of `while let Some(res)`: Ok(r) is pushed, Err(e) only logged
PushResult(rs, out) == IF out # None THEN Append(rs, out[1]) ELSE rs

\* mutant: pb.inc(1) sits in the Ok arm
CollectPoll_IncOnOk ==
  /\ pc = "collect"
  /\ LET f == Fill(streamPos, in_progress, ready_queue, BufferMax)
     IN /\ f.queue # <<>>
        /\ streamPos' = f.pos
        /\ ready_queue' = Tail(f.queue)
        /\ LET h == Head(f.queue)
           IN IF HandleReady(h)
              THEN /\ in_progress' = f.inprog \ {h}
                   /\ results' = PushResult(results, output[h])
                   /\ pb' = IF output[h] # None THEN PbInc(pb) ELSE pb
              ELSE /\ in_progress' = f.inprog
                   /\ UNCHANGED <<results, pb>>
  /\ UNCHANGED <<argVars, pc, error, now, ports, start_time, permits, tasks,
                 taskVars, ended_early, summary>>

\* stream.next() polls the handle at the head of the ready-to-run queue: a
\* ready handle is yielded and the loop body runs; a pending one leaves the
\* queue until its task wakes it
CollectPoll ==
  /\ pc = "collect"
  /\ LET f == Fill(streamPos, in_progress, ready_queue, BufferMax)
     IN /\ f.queue # <<>>
        /\ streamPos' = f.pos
        /\ ready_queue' = Tail(f.queue)
        /\ LET h == Head(f.queue)
           IN IF HandleReady(h)
              THEN /\ in_progress' = f.inprog \ {h}
                   /\ results' = PushResult(results, output[h])
                   /\ pb' = PbInc(pb)
              ELSE /\ in_progress' = f.inprog
                   /\ UNCHANGED <<results, pb>>
  /\ UNCHANGED <<argVars, pc, error, now, ports, start_time, permits, tasks,
                 taskVars, ended_early, summary>>

\* mutant: the stream ends as soon as no handle is ready to be polled
StreamDone_NothingReady(f) == f.queue = <<>>

\* BufferUnordered yields None when its FuturesUnordered is empty and the
\* iterator is done
StreamDone(f) == f.inprog = {} /\ f.pos = Len(tasks)

\* stream.next() yields None: the loop ends
CollectEnd ==
  /\ pc = "collect"
  /\ StreamDone(Fill(streamPos, in_progress, ready_queue, BufferMax))
  /\ pc' = "summarize"
  /\ UNCHANGED <<argVars, error, now, ports, start_time, permits, pb, tasks,
                 taskVars, collectorVars, results, summary>>

(***************************************************************************)
(* The ScanSummary.                                                        *)
(***************************************************************************)
\* results.iter().filter(|r| r.status == s).count()
CountStatus(rs, s) == Cardinality({i \in 1..Len(rs) : rs[i].status = s})

MakeSummary(rs, total) ==
  [target |-> target,
   scanned_ports |-> Len(rs),
   open_ports |-> CountStatus(rs, "Open"),
   closed_ports |-> CountStatus(rs, "Closed"),
   filtered_ports |-> CountStatus(rs, "Filtered"),
   total_time_ms |-> total,
   results |-> rs]

\* after the loop: the counts, the summary; results moves into it
Summarize ==
  /\ pc = "summarize"
  /\ summary' = Some(MakeSummary(results, now - start_time[1]))
  /\ pc' = "done"
  /\ UNCHANGED <<argVars, error, now, ports, start_time, permits, pb, tasks,
                 taskVars, collectorVars, results>>

(***************************************************************************)
(* Time passes.                                                            *)
(***************************************************************************)
\* the clock advances by one instant; the instants before start_time is
\* taken are not told apart
Tick ==
  /\ now < MaxTime
  /\ pc \in {"setup", "dispatch", "collect", "summarize"}
  /\ now' = now + 1
  /\ UNCHANGED <<argVars, pc, error, ports, start_time, permits, pb, tasks,
                 taskVars, collectorVars, results, summary>>

Next ==
  \/ ValidateTarget
  \/ ParsePorts
  \/ Setup
  \/ Dispatch
  \/ BeginCollect
  \/ CollectPoll
  \/ CollectEnd
  \/ Summarize
  \/ \E p \in DOMAIN tstate : StartConnect(p)
  \/ \E p \in DOMAIN tstate : ConnectOk(p)
  \/ \E p \in DOMAIN tstate : \E outcome \in ConnectOutcomes :
       ConnectFails(p, outcome)
  \/ \E p \in DOMAIN tstate : \E read \in ReadOutcomes : BannerDone(p, read)
  \/ \E p \in DOMAIN tstate : TaskFails(p)

\* the scan with the clock standing still: every instant reads 0
Spec == Init /\ [][Next]_vars

\* the scan with the clock running, on the inputs of Init with at most
\* two ports
TimedInit == Init /\ portSpec \in {Str_9_22, Str_2to1}

TimedSpec == TimedInit /\ [][Next \/ Tick]_vars

\* a step of the probe task of port p that resolves something it awaits
\* (each await of the task is bounded by a deadline)
ProbeStep(p) ==
  /\ p \in DOMAIN tstate
  /\ \/ StartConnect(p)
     \/ ConnectOk(p)
     \/ \E outcome \in ConnectOutcomes : ConnectFails(p, outcome)
     \/ \E read \in ReadOutcomes : BannerDone(p, read)

\* a step of main from the start of the scan on
ScanStep ==
  \/ Setup
  \/ Dispatch
  \/ BeginCollect
  \/ CollectPoll
  \/ CollectEnd
  \/ Summarize

\* every port a specification of PortSpecs names
ModelPorts == {9, 21, 22, 23}

\* the runtime schedules main and every spawned task that can run
LiveSpec ==
  /\ Spec
  /\ WF_vars(ScanStep)
  /\ \A p \in ModelPorts : WF_vars(ProbeStep(p))

(***************************************************************************)
(* The claims.                                                             *)
(***************************************************************************)
\* the probe tasks dispatched and not yet ended
InFlight == {p \in DOMAIN tstate : tstate[p] \in {"spawned", "connecting", "banner"}}

Ended == {p \in DOMAIN tstate : tstate[p] \in {"done", "failed"}}

Failed == {p \in DOMAIN tstate : tstate[p] = "failed"}

ResultPorts == {results[i].port : i \in 1..Len(results)}

\* the position of port p's result in results (0 when it has none)
PosInResults(p) ==
  IF p \in ResultPorts
  THEN CHOOSE i \in 1..Len(results) : results[i].port = p
  ELSE 0

PosInCompleted(p) == CHOOSE i \in 1..Len(completed) : completed[i] = p

\* C1: with a concurrency limit N >= 1, at most N probe tasks are dispatched
\* and not yet completed, in every reachable state.
C1_InFlightBounded ==
  concurrency >= 1 => Cardinality(InFlight) <= concurrency

\* C1 witness: the limit is reached while a port still waits to be dispatched
C1_Witness ==
  /\ pc = "dispatch"
  /\ concurrency = 2
  /\ Cardinality(InFlight) = 2
  /\ Len(tasks) < Len(ports)
  /\ \E p \in InFlight : tstate[p] = "banner"

\* C2: when no probe task fails, the scan of k ports ends with a summary of
\* exactly k results, scanned_ports = k and open + closed + filtered = k.
C2_AllPortsCounted ==
  (pc = "done" /\ Failed = {}) =>
     LET sm == summary[1]
     IN /\ Len(sm.results) = Len(ports)
        /\ sm.scanned_ports = Len(ports)
        /\ sm.open_ports + sm.closed_ports + sm.filtered_ports = Len(ports)
        /\ {sm.results[i].port : i \in 1..Len(sm.results)} = PortSet

\* C2 witness: a finished scan of three ports, one of each status
C2_Witness ==
  /\ pc = "done"
  /\ Failed = {}
  /\ Len(ports) = 3
  /\ summary[1].open_ports = 1
  /\ summary[1].closed_ports = 1
  /\ summary[1].filtered_ports = 1

\* C3: a probe whose connection attempt is refused yields Closed with no
\* banner and no service, and no other outcome yields Closed.
C3_ClosedIffRefused ==
  \A p \in DOMAIN output :
     output[p] # None =>
        LET r == output[p][1]
        IN /\ connect_res[p] = "refused" =>
                r.status = "Closed" /\ r.banner = None /\ r.service = None
           /\ r.status = "Closed" => connect_res[p] = "refused"

\* C3 witness: a refused probe of a well-known port has landed in results
C3_Witness ==
  \E i \in 1..Len(results) :
     /\ connect_res[results[i].port] = "refused"
     /\ results[i].port \in WellKnownPorts
     /\ \E j \in 1..Len(results) : connect_res[results[j].port] = "io_error"

\* C4: a probe whose connection attempt hits the deadline or fails with an
\* error other than connection-refused yields Filtered with no banner and no
\* service, and no probe makes a second connection attempt.
C4_FilteredNoRetry ==
  \A p \in DOMAIN output :
     /\ attempts[p] <= 1
     /\ (output[p] # None /\ connect_res[p] \in {"io_error", "elapsed"}) =>
           LET r == output[p][1]
           IN /\ r.status = "Filtered"
              /\ r.banner = None
              /\ r.service = None
              /\ attempts[p] = 1

\* C4 witness: one probe ran into the deadline, another into another error
C4_Witness ==
  \E p, q \in DOMAIN output :
     /\ output[p] # None /\ connect_res[p] = "elapsed"
     /\ output[q] # None /\ connect_res[q] = "io_error"
     /\ p \in WellKnownPorts

\* C5: a probe whose connection completes yields Open whatever the banner
\* read does; when the read returns zero bytes, hits its deadline or fails,
\* the banner is absent and the service is the table entry of the port
\* (absent for a port not in the table).
ReadFailed(read) ==
  \/ read.kind \in {"io_error", "elapsed"}
  \/ read.kind = "data" /\ Len(read.bytes) = 0

C5_OpenWhateverBanner ==
  \A p \in DOMAIN output :
     (output[p] # None /\ connect_res[p] = "connected") =>
        LET r == output[p][1]
        IN /\ r.status = "Open"
           /\ ReadFailed(read_res[p]) =>
                 /\ r.banner = None
                 /\ r.service =
                      IF p \in WellKnownPorts THEN Some(ServiceTable(p)) ELSE None

\* C5 witness: the three ways the read fails, on ports in and out of the table
C5_Witness ==
  /\ \E p \in DOMAIN output :
        /\ output[p] # None /\ read_res[p].kind = "elapsed"
        /\ output[p][1].service = Some("SSH")
  /\ \E p \in DOMAIN output :
        /\ output[p] # None /\ read_res[p].kind = "io_error"
        /\ p \notin WellKnownPorts
  /\ \E p \in DOMAIN output :
        /\ output[p] # None /\ read_res[p].kind = "data"
        /\ read_res[p].bytes = <<>>

\* the position of port p's handle in tasks
PosInTasks(p) == CHOOSE i \in 1..Len(tasks) : tasks[i] = p

\* C6 (as claimed): results is in completion order: a probe that completed
\* before another precedes it in results.
C6_CompletionOrder ==
  \A p, q \in ResultPorts :
     PosInCompleted(p) < PosInCompleted(q) => PosInResults(p) < PosInResults(q)

\* C6 (amended): results is in the order the collection loop takes the
\* handles from the stream: a result is appended only after its probe has
\* completed, and of two probes that had both completed when the collection
\* loop started, the one dispatched first (the lower port) comes first in
\* results, whichever completed first.
C6_EarlyProbesInPortOrder ==
  /\ \A p \in ResultPorts : p \in Ended /\ results[PosInResults(p)] = output[p][1]
  /\ \A p, q \in ResultPorts \cap ended_early :
        PosInTasks(p) < PosInTasks(q) => PosInResults(p) < PosInResults(q)

\* C6 witness: two results in port order although the probe of the higher
\* port completed first, both before the collection loop started
C6_Witness ==
  \E p, q \in ResultPorts \cap ended_early :
     /\ p < q
     /\ PosInCompleted(q) < PosInCompleted(p)
     /\ PosInResults(p) < PosInResults(q)

CountersMatch(sm) ==
  /\ sm.scanned_ports = Len(sm.results)
  /\ sm.open_ports = CountStatus(sm.results, "Open")
  /\ sm.closed_ports = CountStatus(sm.results, "Closed")
  /\ sm.filtered_ports = CountStatus(sm.results, "Filtered")

\* C7: the summary is built once, when every dispatched probe has completed:
\* in a state with a summary no probe is in flight and every port has been
\* dispatched, and once built neither the summary nor results changes.
C7_SummaryOnceAfterAll ==
  /\ [](summary # None =>
          /\ InFlight = {}
          /\ Len(tasks) = Len(ports)
          /\ Ended = PortSet
          /\ summary[1].results = results
          /\ CountersMatch(summary[1]))
  /\ [][summary # None => summary' = summary /\ results' = results]_vars
  /\ [][summary' # summary => summary = None /\ InFlight = {}]_vars

\* C7 witness: a summary of three results
C7_Witness ==
  /\ summary # None
  /\ summary[1].scanned_ports = 3
  /\ concurrency = 1

\* C8: with N >= 1 and a valid configuration the scan terminates under fair
\* scheduling: every port is dispatched, every probe completes and the
\* summary is produced.
C8_Terminates ==
  (pc = "setup" /\ concurrency >= 1) ~>
     (/\ pc = "done"
      /\ summary # None
      /\ Len(tasks) = Len(ports)
      /\ Ended = PortSet)

\* C8 witness: the scan of three ports with one permit ends although every
\* connection attempt hung until its deadline
C8_Witness ==
  /\ pc = "done"
  /\ concurrency = 1
  /\ Len(ports) = 3
  /\ \A p \in PortSet : connect_res[p] = "elapsed"

ConfigError == ~IpAddrFromStr(target).ok \/ ~parse_ports(portSpec).ok

NoWorkStarted ==
  /\ start_time = None
  /\ permits = None
  /\ pb = None
  /\ tasks = <<>>
  /\ DOMAIN tstate = {}
  /\ DOMAIN attempts = {}
  /\ results = <<>>
  /\ summary = None

\* C9: a configuration error (invalid target, port specification rejected)
\* ends the run before any work starts: no semaphore and no permit, no probe
\* task, no connection attempt, no summary.
C9_ConfigErrorFailsFast ==
  /\ ConfigError => NoWorkStarted /\ pc \in {"start", "parse", "failed"}
  /\ pc = "failed" => ConfigError /\ error # None /\ NoWorkStarted

\* C9 witness: the run ended on an inverted range given with a valid target
C9_Witness ==
  /\ pc = "failed"
  /\ error = Some("Start > end")
  /\ IpAddrFromStr(target).ok

\* C10: a probe task that fails does not abort the scan: the other ports are
\* probed and collected, the failed port has no entry in results, and
\* scanned_ports = length(results) = open + closed + filtered = k - failed.
C10_FailedTaskSkipped ==
  /\ Failed # {} => pc # "failed" /\ error = None
  /\ pc = "done" =>
        LET sm == summary[1]
        IN /\ sm.scanned_ports = Len(sm.results)
           /\ Len(sm.results) = Len(ports) - Cardinality(Failed)
           /\ sm.open_ports + sm.closed_ports + sm.filtered_ports
                = Len(ports) - Cardinality(Failed)
           /\ {sm.results[i].port : i \in 1..Len(sm.results)} = PortSet \ Failed
           /\ \A i \in 1..Len(sm.results) :
                 sm.results[i] = output[sm.results[i].port][1]

\* C10 witness: a finished scan of three ports, one task failed, two did not
C10_Witness ==
  /\ pc = "done"
  /\ Len(ports) = 3
  /\ Cardinality(Failed) = 1
  /\ summary[1].scanned_ports = 2

(***************************************************************************)
(* parse_ports on its own: main up to the parsed port list, on every port  *)
(* specification of at most MaxSpecLen characters and on some longer ones. *)
(***************************************************************************)
\* the longest port specification drawn character by character
MaxSpecLen == 4

SpecAlphabet == {"0", "1", "2", ",", "-", " ", "a"}

BoundedSpecs == UNION {[1..n -> SpecAlphabet] : n \in 0..MaxSpecLen}

Str_22_22_80to82_0 ==
  <<"2", "2", ",", "2", "2", ",", "8", "0", "-", "8", "2", ",", "0">>
Str_100to50 == <<"1", "0", "0", "-", "5", "0">>
Str_abc == <<"a", "b", "c">>
Str_65535 == <<"6", "5", "5", "3", "5">>
Str_65536 == <<"6", "5", "5", "3", "6">>
Str_1to2to3 == <<"1", "-", "2", "-", "3">>
Str_1_2to1 == <<"1", ",", "2", "-", "1">>

ExampleSpecs ==
  {Str_22_22_80to82_0, Str_100to50, Str_abc, Str_65535, Str_65536,
   Str_1to2to3, Str_1_2to1}

\* every variable but the arguments, as main starts
InitialState ==
  /\ pc = "start"
  /\ error = None
  /\ now = 0
  /\ ports = <<>>
  /\ start_time = None
  /\ permits = None
  /\ pb = None
  /\ tasks = <<>>
  /\ tstate = <<>>
  /\ connect_res = <<>>
  /\ read_res = <<>>
  /\ duration = <<>>
  /\ output = <<>>
  /\ attempts = <<>>
  /\ completed = <<>>
  /\ finished_at = <<>>
  /\ ended_early = {}
  /\ streamPos = 0
  /\ in_progress = {}
  /\ ready_queue = <<>>
  /\ results = <<>>
  /\ summary = None

ParseInit ==
  /\ target = "127.0.0.1"
  /\ portSpec \in BoundedSpecs \cup ExampleSpecs
  /\ concurrency = 1
  /\ quiet = FALSE
  /\ InitialState

ParseNext == ValidateTarget \/ ParsePorts

ParseSpec == ParseInit /\ [][ParseNext]_vars

\* the tokens of a specification: the trimmed pieces between commas, the
\* empty ones left out
Tokens(s) ==
  {Trim(Split(s, ",")[i]) : i \in 1..Len(Split(s, ","))} \ {<<>>}

\* the ports a well-formed token names
TokenPorts(tok) ==
  IF ContainsChar(tok, "-")
  THEN ParseU16(Split(tok, "-")[1]).val .. ParseU16(Split(tok, "-")[2]).val
  ELSE {ParseU16(tok).val}

NamedPorts(s) == UNION {TokenPorts(tok) : tok \in Tokens(s)}

\* a token parse_ports must reject
BadToken(tok) ==
  IF ContainsChar(tok, "-")
  THEN \/ Len(Split(tok, "-")) # 2
       \/ ~ParseU16(Split(tok, "-")[1]).ok
       \/ ~ParseU16(Split(tok, "-")[2]).ok
       \/ ParseU16(Split(tok, "-")[1]).val > ParseU16(Split(tok, "-")[2]).val
  ELSE ~ParseU16(tok).ok

BadSpec(s) ==
  \/ \E tok \in Tokens(s) : BadToken(tok)
  \/ NamedPorts(s) \ {0} = {}

\* C11: a port list parse_ports returns is strictly ascending, holds no 0
\* and holds exactly the non-zero ports its tokens name (single ports and
\* inclusive ranges, empty tokens ignored).
C11_ParsedPortsSortedExact ==
  pc = "setup" =>
     /\ \A i \in 1..(Len(ports) - 1) : ports[i] < ports[i + 1]
     /\ 0 \notin PortSet
     /\ PortSet = NamedPorts(portSpec) \ {0}

\* C11 witness: "22,22,80-82,0" parsed to 22, 80, 81, 82
C11_Witness ==
  /\ pc = "setup"
  /\ portSpec = Str_22_22_80to82_0
  /\ ports = <<22, 80, 81, 82>>

\* C12: parse_ports fails as a whole: a bad token (not a u16, a range that
\* is not two numbers, start > end) or no port left after removing 0 gives
\* an error and no port list, also when valid tokens precede the bad one.
C12_ParseFailsAtomically ==
  (pc \notin {"start", "parse"} /\ BadSpec(portSpec)) =>
     /\ pc = "failed"
     /\ error # None
     /\ ports = <<>>

\* C12 witness: "1,2-1" is rejected although its first token is valid
C12_Witness ==
  /\ pc = "failed"
  /\ portSpec = Str_1_2to1
  /\ error = Some("Start > end")
  /\ ports = <<>>

(***************************************************************************)
(* detect_service on its own: the probe of a single port whose connection  *)
(* completes, on banners made of at most MaxBannerParts fragments.         *)
(***************************************************************************)
\* the most fragments a banner drawn is made of
MaxBannerParts == 2

BannerFragments == {Str_SSH, Str_HTTP, Str_Server, Str_220, <<"x">>, <<" ">>}

RECURSIVE Flatten(_)
Flatten(ss) == IF ss = <<>> THEN <<>> ELSE Head(ss) \o Flatten(Tail(ss))

BannerBytes ==
  {Flatten(ss) : ss \in UNION {[1..n -> BannerFragments] : n \in 0..MaxBannerParts}}

\* the reads drawn: some bytes (none is the end of the stream), or a timeout
ClassifyReads ==
  {[kind |-> "data", bytes |-> b] : b \in BannerBytes}
    \cup {[kind |-> "elapsed", bytes |-> <<>>]}

\* the nine ports of the table and one outside it, as port specifications
PortStrings ==
  {<<"2", "2">>, <<"8", "0">>, <<"4", "4", "3">>, <<"2", "1">>, <<"2", "5">>,
   <<"3", "3", "0", "6">>, <<"5", "4", "3", "2">>, <<"3", "3", "8", "9">>,
   <<"5", "9", "0", "0">>, <<"9", "9", "9", "9">>}

ClassifyInit ==
  /\ target = "127.0.0.1"
  /\ portSpec \in PortStrings
  /\ concurrency = 1
  /\ quiet = FALSE
  /\ InitialState

ClassifyNext ==
  \/ ValidateTarget
  \/ ParsePorts
  \/ Setup
  \/ Dispatch
  \/ \E p \in DOMAIN tstate : StartConnect(p)
  \/ \E p \in DOMAIN tstate : ConnectOk(p)
  \/ \E p \in DOMAIN tstate : \E read \in ClassifyReads : BannerDone(p, read)

ClassifySpec == ClassifyInit /\ [][ClassifyNext]_vars

\* pat occurs in b at position i
OccursAt(b, pat, i) ==
  /\ i + Len(pat) - 1 <= Len(b)
  /\ \A j \in 1..Len(pat) : b[i + j - 1] = pat[j]

Occurs(b, pat) == \E i \in 1..Len(b) : OccursAt(b, pat, i)

\* the well-known-ports table, as pairs
TablePairs ==
  {<<22, "SSH">>, <<80, "HTTP">>, <<443, "HTTPS">>, <<21, "FTP">>,
   <<25, "SMTP">>, <<3306, "MySQL">>, <<5432, "PostgreSQL">>,
   <<3389, "RDP">>, <<5900, "VNC">>}

\* what the precedence gives for a port and a banner text
ServiceByBanner(port, b) ==
  IF Occurs(b, <<"S", "S", "H", "-">>) THEN Some("SSH")
  ELSE IF Occurs(b, <<"H", "T", "T", "P", "/">>)
          \/ Occurs(b, <<"S", "e", "r", "v", "e", "r", ":">>)
  THEN Some("HTTP")
  ELSE IF OccursAt(b, <<"2", "2", "0", " ">>, 1) THEN Some("SMTP/FTP")
  ELSE IF \E pr \in TablePairs : pr[1] = port
  THEN Some((CHOOSE pr \in TablePairs : pr[1] = port)[2])
  ELSE None

\* C13: detect_service takes the first match of: banner contains "SSH-"
\* (SSH); banner contains "HTTP/" or "Server:" (HTTP); banner starts with
\* "220 " (SMTP/FTP); the entry of the port in the nine-entry table; absent.
\* A matching banner overrides the table.
C13_ServicePrecedence ==
  /\ Cardinality(WellKnownPorts) = 9
  /\ \A p \in DOMAIN output :
        (output[p] # None /\ output[p][1].status = "Open") =>
           LET r == output[p][1]
           IN r.service =
                IF r.banner = None
                THEN ServiceByBanner(p, <<>>)
                ELSE ServiceByBanner(p, r.banner[1])

\* C13 witness: port 80 answers with a banner holding "HTTP/" and then
\* "SSH-": the service is SSH
C13_Witness ==
  /\ 80 \in DOMAIN output
  /\ output[80] # None
  /\ output[80][1].banner = Some(Str_HTTP \o Str_SSH)
  /\ output[80][1].service = Some("SSH")

\* C14: every port gets its PortResult once: results holds at most one
\* entry per port, each for a port of the parsed list, the result of a task
\* is set once, and an entry of results is never changed or removed.
C14_OneResultPerPort ==
  /\ [](/\ \A i, j \in 1..Len(results) :
              results[i].port = results[j].port => i = j
        /\ ResultPorts \subseteq PortSet)
  /\ [][/\ Len(results') >= Len(results)
        /\ \A i \in 1..Len(results) : results'[i] = results[i]
        /\ \A p \in DOMAIN output :
              output[p] # None => output'[p] = output[p]]_vars

\* C14 witness: three results, one per port of the list
C14_Witness ==
  /\ Len(results) = 3
  /\ ResultPorts = PortSet
  /\ pc = "collect"

\* C15 (as claimed): duration_ms of every PortResult is the time from the
\* start of the scan to the completion of the probe, for an Open port after
\* the banner read and the classification.
C15_DurationToCompletion ==
  \A p \in DOMAIN output :
     output[p] # None =>
        output[p][1].duration_ms = finished_at[p][1] - start_time[1]

\* C15 (amended): duration_ms is the time from the start of the scan to the
\* instant the connection attempt resolves: that is the completion of a
\* Closed or Filtered probe, and for an Open probe it is taken before the
\* banner read, whose time it leaves out.
C15_DurationToConnect ==
  /\ [](\A p \in DOMAIN output :
          output[p] # None =>
             LET r == output[p][1]
             IN /\ r.duration_ms = duration[p][1]
                /\ r.duration_ms <= finished_at[p][1] - start_time[1]
                /\ r.status # "Open" =>
                      r.duration_ms = finished_at[p][1] - start_time[1])
  /\ [][\A p \in DOMAIN connect_res :
          /\ (connect_res[p] = "none" /\ connect_res'[p] # "none") =>
                duration'[p] = Some(now - start_time[1])
          /\ duration[p] # None => duration'[p] = duration[p]]_vars

\* C15 witness: an Open result whose duration_ms is 0 though its probe
\* completed one instant after the start of the scan
C15_Witness ==
  \E p \in DOMAIN output :
     /\ output[p] # None
     /\ output[p][1].status = "Open"
     /\ output[p][1].duration_ms = 0
     /\ finished_at[p] = Some(1)
     /\ start_time = Some(0)

\* the notifications the progress bar has received
Notifications == IF pb = None THEN 0 ELSE pb[1]

\* C16 (as claimed): one notification per dispatched probe: never more
\* notifications than completed probe tasks, and as many as ports dispatched
\* when the scan ends.
C16_OneNotificationPerProbe ==
  /\ Notifications <= Cardinality(Ended)
  /\ pc = "done" => Notifications = Len(tasks)

\* C16 (amended): the same, unless --quiet is given: then there is no
\* progress bar and no notification is issued.
C16_NotificationsUnlessQuiet ==
  /\ Notifications <= Cardinality(Ended)
  /\ ~quiet => Notifications >= Len(results)
  /\ quiet => pb = None
  /\ pc \in {"summarize", "done"} =>
        Notifications = IF quiet THEN 0 ELSE Len(tasks)

\* C16 witness: a finished scan of three ports, not quiet, with a failed
\* task: three notifications, two results
C16_Witness ==
  /\ pc = "done"
  /\ ~quiet
  /\ pb = Some(3)
  /\ Len(results) = 2
  /\ Failed # {}

\* C17: permits are conserved: available permits plus probe tasks dispatched
\* and not yet completed equal the concurrency limit; a connection is
\* attempted only by a dispatched probe, which holds a permit until its task
\* ends; every ended task, failed or not, has given its permit back, so all
\* permits are available when the summary is built.
C17_PermitsConserved ==
  /\ permits # None => permits[1] + Cardinality(InFlight) = concurrency
  /\ \A p \in DOMAIN attempts : attempts[p] > 0 => \E i \in 1..Len(tasks) : tasks[i] = p
  /\ \A p \in DOMAIN tstate :
        tstate[p] \in {"connecting", "banner"} => permits[1] < concurrency
  /\ summary # None => permits = Some(concurrency)

\* C17 witness: a summary built after three probes under limit 2, one Open,
\* one not Open and one failed task
C17_Witness ==
  /\ summary # None
  /\ concurrency = 2
  /\ permits = Some(2)
  /\ Len(tasks) = 3
  /\ Failed # {}
  /\ \E i, j \in 1..Len(results) :
        results[i].status = "Open" /\ results[j].status # "Open"

\* C18: probes are admitted in ascending port order by one sequential
\* dispatcher: the parsed list is strictly ascending, the dispatched ports
\* are always a prefix of it, each dispatch admits exactly the next port of
\* the list, and a port whose probe has started has every earlier port
\* dispatched before it.
C18_AdmittedInPortOrder ==
  /\ [](/\ \A i, j \in 1..Len(ports) : i < j => ports[i] < ports[j]
        /\ Len(tasks) <= Len(ports)
        /\ \A i \in 1..Len(tasks) : tasks[i] = ports[i]
        /\ \A i \in 1..Len(ports) :
              (/\ ports[i] \in DOMAIN tstate
               /\ tstate[ports[i]] # "none" \/ attempts[ports[i]] > 0) =>
                 /\ i <= Len(tasks)
                 /\ \A j \in 1..i : tstate[ports[j]] # "none")
  /\ [][tasks' # tasks =>
          /\ Len(tasks) < Len(ports)
          /\ tasks' = Append(tasks, ports[Len(tasks) + 1])
          /\ permits[1] > 0
          /\ permits'[1] = permits[1] - 1]_vars

\* C18 witness: three ports under limit 1: the first is connecting, the
\* second waits for its slot, the third is behind it
C18_Witness ==
  /\ pc = "dispatch"
  /\ Len(ports) = 3
  /\ tasks = <<ports[1]>>
  /\ permits = Some(0)
  /\ tstate[ports[1]] = "connecting"
  /\ tstate[ports[2]] = "none"
  /\ tstate[ports[3]] = "none"

\* C19: dispatch and collection are two sequential phases: once a result has
\* been appended or a notification issued, every port of the parsed list has
\* been dispatched; while the dispatch loop runs, the results of probes that
\* have ended stay in their join handles: nothing is collected, nothing is
\* notified, no handle has been polled.
C19_DispatchThenCollect ==
  /\ (Len(results) > 0 \/ Notifications > 0) =>
        /\ Len(tasks) = Len(ports)
        /\ pc \in {"collect", "summarize", "done"}
  /\ pc = "dispatch" =>
        /\ results = <<>>
        /\ Notifications = 0
        /\ streamPos = 0
        /\ in_progress = {}

\* C19 witness: the dispatch loop still has a port to admit while the probe
\* of an earlier port has ended with a result that waits in its handle
C19_Witness ==
  /\ pc = "dispatch"
  /\ Len(tasks) < Len(ports)
  /\ \E p \in DOMAIN output : tstate[p] = "done" /\ output[p] # None
  /\ results = <<>>

\* C20: the concurrency limit is not validated: with limit 0 and a non-empty
\* parsed port list the run reaches the dispatch loop without a
\* configuration error and stays at its first permit acquisition forever:
\* no probe is dispatched, no connection attempted, no summary produced,
\* and no step is possible from there.
C20_ZeroLimitBlocksForever ==
  /\ []((concurrency = 0 /\ ports # <<>>) =>
          /\ pc \in {"setup", "dispatch"}
          /\ error = None
          /\ tasks = <<>>
          /\ summary = None
          /\ results = <<>>
          /\ \A p \in DOMAIN attempts : attempts[p] = 0 /\ tstate[p] = "none"
          /\ permits # None => permits = Some(0))
  /\ [][~(concurrency = 0 /\ ports # <<>> /\ pc = "dispatch")]_vars

\* C20 witness: limit 0, two ports parsed, the dispatcher at its first
\* permit acquisition with no permit to take
C20_Witness ==
  /\ pc = "dispatch"
  /\ concurrency = 0
  /\ permits = Some(0)
  /\ Len(ports) = 2
  /\ tasks = <<>>
  /\ error = None

====
